---- MODULE Spec2Model ----
(***************************************************************************)
(* Model of the tax challan extractor (src/app.py): the field catalog and  *)
(* its regular-expression matcher, per-document extraction with its fault  *)
(* handling, the batch loop over the uploaded files, the construction of   *)
(* the result table and its CSV export.                                    *)
(*                                                                         *)
(* Text is modelled character by character: a Python str is a sequence of  *)
(* one-character strings.  A cell of a record is either None or a str.     *)
(***************************************************************************)
EXTENDS Integers, Sequences, FiniteSets, TLC

(***************************************************************************)
(* Characters and the character classes used by the patterns.              *)
(***************************************************************************)
Digit == {"0","1","2","3","4","5","6","7","8","9"}

Upper == {"A","B","C","D","E","F","G","H","I","J","K","L","M",
          "N","O","P","Q","R","S","T","U","V","W","X","Y","Z"}

Lower == {"a","b","c","d","e","f","g","h","i","j","k","l","m",
          "n","o","p","q","r","s","t","u","v","w","x","y","z"}

\* \w of a Python 3 str pattern
Word == Digit \cup Upper \cup Lower \cup {"_"}

Whitespace == {" ", "\n"}

Char == Word \cup Whitespace \cup {":", ".", ",", "-", "/", "(", ")", "+", "\"", "₹"}

\* . matches every character but the newline
Dot == Char \ {"\n"}

\* Python values of a record cell: None, or a str
None == [isNone |-> TRUE, s |-> <<>>]

Str(s) == [isNone |-> FALSE, s |-> s]

\* the one-or-more repetition  [class]+  as a capture group
OneOrMore(class) == [fixed |-> <<>>, plus |-> class]

\* a capture group made of a fixed number of classes
Fixed(shape) == [fixed |-> shape, plus |-> {}]

\* class{n}
Rep(class, n) == [j \in 1..n |-> class]

(***************************************************************************)
(* The field catalog, in definition order.  Every pattern of the source is *)
(* a literal text followed by one capture group that ends the pattern.     *)
(***************************************************************************)
patterns ==
  <<
    \* line 19: r"ITNS No\. : (\d+)"
    [key |-> <<"I","T","N","S"," ","N","o",".">>,
     literal |-> <<"I","T","N","S"," ","N","o","."," ",":"," ">>,
     group |-> OneOrMore(Digit)],
    \* line 20: r"TAN : (\w+)"
    [key |-> <<"T","A","N">>,
     literal |-> <<"T","A","N"," ",":"," ">>,
     group |-> OneOrMore(Word)],
    \* line 21: r"Name : (.+)"
    [key |-> <<"N","a","m","e">>,
     literal |-> <<"N","a","m","e"," ",":"," ">>,
     group |-> OneOrMore(Dot)],
    \* line 22: r"Assessment Year : (\d{4}-\d{2})"
    [key |-> <<"A","s","s","e","s","s","m","e","n","t"," ","Y","e","a","r">>,
     literal |-> <<"A","s","s","e","s","s","m","e","n","t"," ","Y","e","a","r"," ",":"," ">>,
     group |-> Fixed(Rep(Digit, 4) \o <<{"-"}>> \o Rep(Digit, 2))],
    \* line 23: r"Financial Year : (\d{4}-\d{2})"
    [key |-> <<"F","i","n","a","n","c","i","a","l"," ","Y","e","a","r">>,
     literal |-> <<"F","i","n","a","n","c","i","a","l"," ","Y","e","a","r"," ",":"," ">>,
     group |-> Fixed(Rep(Digit, 4) \o <<{"-"}>> \o Rep(Digit, 2))],
    \* line 24: r"Major Head : (.+)"
    [key |-> <<"M","a","j","o","r"," ","H","e","a","d">>,
     literal |-> <<"M","a","j","o","r"," ","H","e","a","d"," ",":"," ">>,
     group |-> OneOrMore(Dot)],
    \* line 25: r"Minor Head : (.+)"
    [key |-> <<"M","i","n","o","r"," ","H","e","a","d">>,
     literal |-> <<"M","i","n","o","r"," ","H","e","a","d"," ",":"," ">>,
     group |-> OneOrMore(Dot)],
    \* line 26: r"Nature of Payment : ([\dA-Z]+)"
    [key |-> <<"N","a","t","u","r","e"," ","o","f"," ","P","a","y","m","e","n","t">>,
     literal |-> <<"N","a","t","u","r","e"," ","o","f"," ","P","a","y","m","e","n","t"," ",":"," ">>,
     group |-> OneOrMore(Digit \cup Upper)],
    \* line 27: r"Amount \(in Rs\.\) : ₹ ([\d,]+)"
    [key |-> <<"A","m","o","u","n","t"," ","(","i","n"," ","R","s",".",")">>,
     literal |-> <<"A","m","o","u","n","t"," ","(","i","n"," ","R","s",".",")"," ",":"," ","₹"," ">>,
     group |-> OneOrMore(Digit \cup {","})],
    \* line 28: r"Amount \(in words\) : (.+)"
    [key |-> <<"A","m","o","u","n","t"," ","(","i","n"," ","w","o","r","d","s",")">>,
     literal |-> <<"A","m","o","u","n","t"," ","(","i","n"," ","w","o","r","d","s",")"," ",":"," ">>,
     group |-> OneOrMore(Dot)],
    \* line 29: r"CIN : (\w+)"
    [key |-> <<"C","I","N">>,
     literal |-> <<"C","I","N"," ",":"," ">>,
     group |-> OneOrMore(Word)],
    \* line 30: r"Mode of Payment : (.+)"
    [key |-> <<"M","o","d","e"," ","o","f"," ","P","a","y","m","e","n","t">>,
     literal |-> <<"M","o","d","e"," ","o","f"," ","P","a","y","m","e","n","t"," ",":"," ">>,
     group |-> OneOrMore(Dot)],
    \* line 31: r"Bank Name : (.+)"
    [key |-> <<"B","a","n","k"," ","N","a","m","e">>,
     literal |-> <<"B","a","n","k"," ","N","a","m","e"," ",":"," ">>,
     group |-> OneOrMore(Dot)],
    \* line 32: r"Bank Reference Number : (\w+)"
    [key |-> <<"B","a","n","k"," ","R","e","f","e","r","e","n","c","e"," ","N","u","m","b","e","r">>,
     literal |-> <<"B","a","n","k"," ","R","e","f","e","r","e","n","c","e"," ","N","u","m","b","e","r"," ",":"," ">>,
     group |-> OneOrMore(Word)],
    \* line 33: r"Date of Deposit : (\d{2}-[A-Za-z]{3}-\d{4})"
    [key |-> <<"D","a","t","e"," ","o","f"," ","D","e","p","o","s","i","t">>,
     literal |-> <<"D","a","t","e"," ","o","f"," ","D","e","p","o","s","i","t"," ",":"," ">>,
     group |-> Fixed(Rep(Digit, 2) \o <<{"-"}>> \o Rep(Upper \cup Lower, 3) \o <<{"-"}>> \o Rep(Digit, 4))],
    \* line 34: r"BSR code : (\d+)"
    [key |-> <<"B","S","R"," ","c","o","d","e">>,
     literal |-> <<"B","S","R"," ","c","o","d","e"," ",":"," ">>,
     group |-> OneOrMore(Digit)],
    \* line 35: r"Challan No : (\d+)"
    [key |-> <<"C","h","a","l","l","a","n"," ","N","o">>,
     literal |-> <<"C","h","a","l","l","a","n"," ","N","o"," ",":"," ">>,
     group |-> OneOrMore(Digit)],
    \* line 36: r"Tender Date : (\d{2}/\d{2}/\d{4})"
    [key |-> <<"T","e","n","d","e","r"," ","D","a","t","e">>,
     literal |-> <<"T","e","n","d","e","r"," ","D","a","t","e"," ",":"," ">>,
     group |-> Fixed(Rep(Digit, 2) \o <<{"/"}>> \o Rep(Digit, 2) \o <<{"/"}>> \o Rep(Digit, 4))],
    \* line 37: r"A Tax ₹ ([\d,]+)"
    [key |-> <<"T","a","x">>,
     literal |-> <<"A"," ","T","a","x"," ","₹"," ">>,
     group |-> OneOrMore(Digit \cup {","})],
    \* line 38: r"B Surcharge ₹ ([\d,]+)"
    [key |-> <<"S","u","r","c","h","a","r","g","e">>,
     literal |-> <<"B"," ","S","u","r","c","h","a","r","g","e"," ","₹"," ">>,
     group |-> OneOrMore(Digit \cup {","})],
    \* line 39: r"C Cess ₹ ([\d,]+)"
    [key |-> <<"C","e","s","s">>,
     literal |-> <<"C"," ","C","e","s","s"," ","₹"," ">>,
     group |-> OneOrMore(Digit \cup {","})],
    \* line 40: r"D Interest ₹ ([\d,]+)"
    [key |-> <<"I","n","t","e","r","e","s","t">>,
     literal |-> <<"D"," ","I","n","t","e","r","e","s","t"," ","₹"," ">>,
     group |-> OneOrMore(Digit \cup {","})],
    \* line 41: r"E Penalty ₹ ([\d,]+)"
    [key |-> <<"P","e","n","a","l","t","y">>,
     literal |-> <<"E"," ","P","e","n","a","l","t","y"," ","₹"," ">>,
     group |-> OneOrMore(Digit \cup {","})],
    \* line 42: r"F Fee under section 234E ₹ ([\d,]+)"
    [key |-> <<"F","e","e"," ","u","n","d","e","r"," ","s","e","c","t","i","o","n"," ","2","3","4","E">>,
     literal |-> <<"F"," ","F","e","e"," ","u","n","d","e","r"," ","s","e","c","t","i","o","n"," ","2","3","4","E"," ","₹"," ">>,
     group |-> OneOrMore(Digit \cup {","})],
    \* line 43: r"Total \(A\+B\+C\+D\+E\+F\) ₹ ([\d,]+)"
    [key |-> <<"T","o","t","a","l">>,
     literal |-> <<"T","o","t","a","l"," ","(","A","+","B","+","C","+","D","+","E","+","F",")"," ","₹"," ">>,
     group |-> OneOrMore(Digit \cup {","})]
  >>

ErrorMarker == Str(<<"E","r","r","o","r">>)

Filename == <<"F","i","l","e","n","a","m","e">>

(***************************************************************************)
(* re.search(pattern, text): the leftmost position where the literal text  *)
(* and then the (greedy) capture group match.                              *)
(***************************************************************************)
Min(S) == CHOOSE x \in S : \A y \in S : x <= y

\* the literal text of the pattern occurs in text at position p
LiteralAt(text, p, literal) ==
    /\ p + Len(literal) - 1 <= Len(text)
    /\ \A j \in 1..Len(literal) : text[p + j - 1] = literal[j]

\* first position at or after q whose character is not in class
RunEnd(text, q, class) ==
    Min({j \in q..(Len(text) + 1) : j = Len(text) + 1 \/ text[j] \notin class})

\* the capture group matches at position q
GroupAt(text, q, group) ==
    /\ q + Len(group.fixed) - 1 <= Len(text)
    /\ \A j \in 1..Len(group.fixed) : text[q + j - 1] \in group.fixed[j]
    /\ group.plus # {} =>
          /\ q + Len(group.fixed) <= Len(text)
          /\ text[q + Len(group.fixed)] \in group.plus

\* position after the last character the capture group takes at q
GroupEnd(text, q, group) ==
    IF group.plus = {} THEN q + Len(group.fixed)
    ELSE RunEnd(text, q + Len(group.fixed), group.plus)

MatchAt(text, p, pattern) ==
    /\ LiteralAt(text, p, pattern.literal)
    /\ GroupAt(text, p + Len(pattern.literal), pattern.group)

\* the match object (found, group(1)) or no match
re_search(pattern, text) ==
    LET starts == {p \in 1..Len(text) : MatchAt(text, p, pattern)}
    IN  IF starts = {} THEN [found |-> FALSE, group1 |-> <<>>]
        ELSE LET p == Min(starts)
                 q == p + Len(pattern.literal)
             IN  [found |-> TRUE,
                  group1 |-> SubSeq(text, q, GroupEnd(text, q, pattern.group) - 1)]

\* str.strip()
strip(s) ==
    LET keep == {j \in 1..Len(s) : s[j] \notin Whitespace}
    IN  IF keep = {} THEN <<>>
        ELSE SubSeq(s, Min(keep), CHOOSE x \in keep : \A y \in keep : y <= x)

\* a matcher that marks a field it does not find instead of leaving it None
MatchValue_MarkMissing(pattern, text) ==
    LET match == re_search(pattern, text)
    IN  IF match.found THEN Str(strip(match.group1)) ELSE ErrorMarker

\* value = match.group(1).strip() if match else None
MatchValue(pattern, text) ==
    LET match == re_search(pattern, text)
    IN  IF match.found THEN Str(strip(match.group1)) ELSE None

(***************************************************************************)
(* "\n".join(page.extract_text() for page in pdf.pages                     *)
(*           if page.extract_text())                                       *)
(* A page is the text extract_text() returns for it; the empty sequence    *)
(* stands for a page with no text (None or "").                            *)
(***************************************************************************)
RECURSIVE join(_)
join(texts) ==
    IF texts = <<>> THEN <<>>
    ELSE IF Len(texts) = 1 THEN texts[1]
    ELSE texts[1] \o <<"\n">> \o join(Tail(texts))

extract_text(pages) == join(SelectSeq(pages, LAMBDA t : t # <<>>))

(***************************************************************************)
(* A dict is the sequence of its (key, value) entries in insertion order.  *)
(***************************************************************************)
Keys(data) == [j \in 1..Len(data) |-> data[j].key]

HasKey(data, key) == \E j \in 1..Len(data) : data[j].key = key

Get(data, key) == data[CHOOSE j \in 1..Len(data) : data[j].key = key].value

\* The for loop of the try block, stopped after n fields.  The catalog keys
\* are distinct and none is "Filename", so each data[key] = value adds an entry.
MatchLoop(data, text, n) ==
    data \o [j \in 1..n |->
               [key |-> patterns[j].key, value |-> MatchValue(patterns[j], text)]]

\* an except block that fills nothing in
FillErrors_Skip(data) == data

\* an except block without the  if key not in data  test
FillErrors_Overwrite(data) ==
    [j \in 1..Len(data) |->
        IF data[j].key = Filename THEN data[j]
        ELSE [key |-> data[j].key, value |-> ErrorMarker]]
    \o SelectSeq([j \in 1..Len(patterns) |->
                    [key |-> patterns[j].key, value |-> ErrorMarker]],
                 LAMBDA entry : ~HasKey(data, entry.key))

\* the for loop of the except block:  if key not in data: data[key] = "Error"
FillErrors(data) ==
    data \o SelectSeq([j \in 1..Len(patterns) |->
                         [key |-> patterns[j].key, value |-> ErrorMarker]],
                      LAMBDA entry : ~HasKey(data, entry.key))

\* number of catalog fields the try block assigns before the fault
Assigned(fault) ==
    CASE fault.at = "none"  -> Len(patterns)
      [] fault.at = "match" -> fault.k - 1
      [] OTHER              -> 0

(***************************************************************************)
(* extract_data_from_pdf(uploaded_file).  The result says whether a fault  *)
(* left the function (raised), the record it returned otherwise, and the   *)
(* diagnostics it emitted with st.error.                                   *)
(*   fault.at   where the try block faults: "none", "name" (reading        *)
(*              uploaded_file.name), "open", "page" or "match" (while      *)
(*              matching field number fault.k)                             *)
(*   fault.diag whether st.error faults in the except block                *)
(***************************************************************************)
extract_data_from_pdf(uploaded_file) ==
    LET fault == uploaded_file.fault
        data0 == <<[key |-> Filename, value |-> Str(uploaded_file.name)]>>
        text  == extract_text(uploaded_file.pages)
        tried == MatchLoop(data0, text, Assigned(fault))
    IN  IF fault.at = "name"
        THEN [raised |-> TRUE, data |-> <<>>, errors |-> <<>>]
        ELSE IF fault.at = "none"
        THEN [raised |-> FALSE, data |-> tried, errors |-> <<>>]
        ELSE IF fault.diag
        THEN [raised |-> TRUE, data |-> <<>>, errors |-> <<>>]
        ELSE [raised |-> FALSE,
              data |-> FillErrors(tried),
              errors |-> <<uploaded_file.name>>]

(***************************************************************************)
(* pd.DataFrame(all_data): the columns are the keys of the records in the  *)
(* order of their first appearance; a record without a key has a missing   *)
(* value there, which the export writes like None.                         *)
(***************************************************************************)
\* the concatenation of the sequences seqs[lo], ..., seqs[hi]
RECURSIVE ConcatRange(_, _, _)
ConcatRange(seqs, lo, hi) ==
    IF lo > hi THEN <<>>
    ELSE IF lo = hi THEN seqs[lo]
    ELSE LET mid == (lo + hi) \div 2
         IN  ConcatRange(seqs, lo, mid) \o ConcatRange(seqs, mid + 1, hi)

Concat(seqs) == ConcatRange(seqs, 1, Len(seqs))

\* the keys of all records, one record after the other
AllKeys(records) == Concat([r \in 1..Len(records) |-> Keys(records[r])])

\* the n-th smallest element of a set of numbers
Nth(S, n) == CHOOSE p \in S : Cardinality({q \in S : q < p}) = n - 1

\* the distinct keys in the order of their first appearance
FrameColumns(records) ==
    LET keys  == AllKeys(records)
        first == {p \in 1..Len(keys) : \A q \in 1..(p - 1) : keys[q] # keys[p]}
    IN  [n \in 1..Cardinality(first) |-> keys[Nth(first, n)]]

Cell(record, key) == IF HasKey(record, key) THEN Get(record, key) ELSE None

DataFrame(records) ==
    LET columns == FrameColumns(records)
    IN  [columns |-> columns,
         rows |-> [r \in 1..Len(records) |->
                     [c \in 1..Len(columns) |-> Cell(records[r], columns[c])]]]

\* field_keys = ["Filename"] + list(patterns.keys())
field_keys == <<Filename>> \o [j \in 1..Len(patterns) |-> patterns[j].key]

ColumnIndex(frame, key) ==
    CHOOSE c \in 1..Len(frame.columns) : frame.columns[c] = key

HasColumns(frame, keys) ==
    \A j \in 1..Len(keys) : \E c \in 1..Len(frame.columns) : frame.columns[c] = keys[j]

\* df[keys], defined when every key is a column of the frame
SelectColumns(frame, keys) ==
    [columns |-> keys,
     rows |-> [r \in 1..Len(frame.rows) |->
                 [j \in 1..Len(keys) |-> frame.rows[r][ColumnIndex(frame, keys[j])]]]]

(***************************************************************************)
(* df.to_csv(index=False).encode('utf-8'): a header line and one line per  *)
(* row, fields separated by commas, a field quoted when it holds a comma,  *)
(* a quote or a line break, None written as the empty field.               *)
(***************************************************************************)
NeedsQuotes(s) == \E j \in 1..Len(s) : s[j] \in {",", "\"", "\n"}

DoubleQuotes(s) ==
    Concat([j \in 1..Len(s) |-> IF s[j] = "\"" THEN <<"\"", "\"">> ELSE <<s[j]>>])

CsvField(cell) ==
    IF cell.isNone THEN <<>>
    ELSE IF NeedsQuotes(cell.s) THEN <<"\"">> \o DoubleQuotes(cell.s) \o <<"\"">>
    ELSE cell.s

CsvLine(cells) ==
    Concat([j \in 1..Len(cells) |->
              CsvField(cells[j]) \o (IF j < Len(cells) THEN <<",">> ELSE <<>>)])
    \o <<"\n">>

to_csv(frame) ==
    CsvLine([c \in 1..Len(frame.columns) |-> Str(frame.columns[c])])
    \o Concat([r \in 1..Len(frame.rows) |-> CsvLine(frame.rows[r])])

\* the UTF-8 bytes of a character: one byte for ASCII, three for the rupee sign
Utf8(c) == IF c = "₹" THEN <<"0xE2", "0x82", "0xB9">> ELSE <<c>>

encode(s) == Concat([j \in 1..Len(s) |-> Utf8(s[j])])

convert_df_to_csv(frame) == encode(to_csv(frame))

(***************************************************************************)
(* The uploaded files the batch is drawn from: page texts of challans and  *)
(* the places where processing a file can fault.                           *)
(***************************************************************************)
MaxFiles == 2

WellFormed_p1 == <<"I","T","N","S"," ","N","o","."," ",":"," ","2","8","1","\n","T","A","N"," ",":"," ","A","B","C","D","1","2","3","4","5","E","\n","N","a","m","e"," ",":"," ","A","c","m","e"," ","L","t","d","\n","B","a","n","k"," ","N","a","m","e"," ",":"," ","H","D","F","C"," ","B","a","n","k">>

WellFormed_p2 == <<"A"," ","T","a","x"," ","₹"," ","1",",","2","0","0","\n","T","o","t","a","l"," ","(","A","+","B","+","C","+","D","+","E","+","F",")"," ","₹"," ","1",",","2","0","0">>

BankOnly_p1 == <<"B","a","n","k"," ","N","a","m","e"," ",":"," ","H","D","F","C">>

BankFirst_p1 == <<"B","a","n","k"," ","N","a","m","e"," ",":"," ","H","D","F","C","\n","N","a","m","e"," ",":"," ","Y">>

NoSymbol_p1 == <<"A"," ","T","a","x"," ","1",",","2","0","0","\n","A","m","o","u","n","t"," ","(","i","n"," ","R","s",".",")"," ",":"," ","5","0","0">>

ErrText_p1 == <<"T","A","N"," ",":"," ","E","r","r","o","r">>

Blank_p1 == <<"N","a","m","e"," ",":"," "," ","\n","A","m","o","u","n","t"," ","(","i","n"," ","w","o","r","d","s",")"," ",":"," ","O","n","e",","," ","\"","T","w","o","\"">>

Name_a == <<"a",".","p","d","f">>

Name_b == <<"b",".","p","d","f">>

Name_c == <<"c",",","1",".","p","d","f">>

Name_d == <<"d",".","p","d","f">>

Name_e == <<"e",".","p","d","f">>

Name_f == <<"f",".","p","d","f">>

Name_g == <<"g",".","p","d","f">>

NoFault == [at |-> "none", k |-> 0, diag |-> FALSE]

\* the k-th field is the one being matched when the matcher faults
MatchFaultFields == {1, 4, Len(patterns)}

Faults ==
    {[at |-> "name", k |-> 0, diag |-> FALSE],
     [at |-> "open", k |-> 0, diag |-> FALSE],
     [at |-> "open", k |-> 0, diag |-> TRUE],
     [at |-> "page", k |-> 0, diag |-> FALSE]}
    \cup {[at |-> "match", k |-> k, diag |-> FALSE] : k \in MatchFaultFields}

File(name, pages, fault) == [name |-> name, pages |-> pages, fault |-> fault]

Files ==
    {File(Name_a, <<WellFormed_p1, WellFormed_p2>>, NoFault),
     File(Name_b, <<BankOnly_p1, <<>>>>, NoFault),
     File(Name_c, <<BankFirst_p1>>, NoFault),
     File(Name_d, <<NoSymbol_p1>>, NoFault),
     File(Name_e, <<ErrText_p1>>, NoFault),
     File(Name_f, <<Blank_p1>>, NoFault),
     File(Name_g, <<>>, NoFault)}
    \cup {File(Name_a, <<WellFormed_p1, WellFormed_p2>>, fault) : fault \in Faults}
    \cup {File(Name_g, <<>>, [at |-> "match", k |-> 4, diag |-> FALSE])}

Batches == UNION {[1..n -> Files] : n \in 0..MaxFiles}

\* df and csv_data before they are assigned
NoTable == [columns |-> <<>>, rows |-> <<>>]

NoCsv == <<>>

(***************************************************************************)
(* The script run: the state after st.file_uploader returned.              *)
(***************************************************************************)
VARIABLES uploaded_files, pc, i, all_data, errors, df, csv_data

vars == <<uploaded_files, pc, i, all_data, errors, df, csv_data>>

Init ==
    /\ uploaded_files \in Batches
    /\ pc = "start"
    /\ i = 0
    /\ all_data = <<>>
    /\ errors = <<>>
    /\ df = NoTable
    /\ csv_data = NoCsv

\* if uploaded_files: all_data = [] ...
BeginBatch ==
    /\ pc = "start"
    /\ uploaded_files # <<>>
    /\ pc' = "loop"
    /\ i' = 0
    /\ all_data' = <<>>
    /\ UNCHANGED <<uploaded_files, errors, df, csv_data>>

\* else: st.info(...)
NoFiles ==
    /\ pc = "start"
    /\ uploaded_files = <<>>
    /\ pc' = "idle"
    /\ UNCHANGED <<uploaded_files, i, all_data, errors, df, csv_data>>

\* a loop that puts each new record in front of the earlier ones
ProcessFile_Prepend ==
    /\ pc = "loop"
    /\ i < Len(uploaded_files)
    /\ LET result == extract_data_from_pdf(uploaded_files[i + 1])
       IN  IF result.raised
           THEN /\ pc' = "aborted"
                /\ UNCHANGED <<i, all_data, errors>>
           ELSE /\ all_data' = <<result.data>> \o all_data
                /\ errors' = errors \o result.errors
                /\ i' = i + 1
                /\ pc' = pc
    /\ UNCHANGED <<uploaded_files, df, csv_data>>

\* one iteration of  for i, uploaded_file in enumerate(uploaded_files)
ProcessFile ==
    /\ pc = "loop"
    /\ i < Len(uploaded_files)
    /\ LET result == extract_data_from_pdf(uploaded_files[i + 1])
       IN  IF result.raised
           THEN /\ pc' = "aborted"
                /\ UNCHANGED <<i, all_data, errors>>
           ELSE /\ all_data' = Append(all_data, result.data)
                /\ errors' = errors \o result.errors
                /\ i' = i + 1
                /\ pc' = pc
    /\ UNCHANGED <<uploaded_files, df, csv_data>>

\* after the loop: the table and its column order
BuildTable ==
    /\ pc = "loop"
    /\ i = Len(uploaded_files)
    /\ IF all_data = <<>>
       THEN /\ pc' = "done"
            /\ df' = df
       ELSE LET frame == DataFrame(all_data)
            IN  IF HasColumns(frame, field_keys)
                THEN /\ df' = SelectColumns(frame, field_keys)
                     /\ pc' = "table"
                ELSE /\ pc' = "aborted"
                     /\ df' = df
    /\ UNCHANGED <<uploaded_files, i, all_data, errors, csv_data>>

\* csv_data = convert_df_to_csv(df) and the download button
Export ==
    /\ pc = "table"
    /\ csv_data' = convert_df_to_csv(df)
    /\ pc' = "done"
    /\ UNCHANGED <<uploaded_files, i, all_data, errors, df>>

Next == BeginBatch \/ NoFiles \/ ProcessFile \/ BuildTable \/ Export

Spec == Init /\ [][Next]_vars

(***************************************************************************)
(* Properties of the batch run.  Row j of all_data is the record of        *)
(* uploaded_files[j]: the loop appends one record per processed file.      *)
(***************************************************************************)
Rows == 1..Len(all_data)

Fields == 1..Len(patterns)

TextOf(file) == extract_text(file.pages)

Faulted(file) == file.fault.at # "none"

\* the first catalog field the try block did not assign
FirstUnassigned(file) == Assigned(file.fault) + 1

HasMatch(pattern, text) == \E p \in 1..Len(text) : MatchAt(text, p, pattern)

\* C1: the table has exactly one row per input document and the j-th row
\* carries the Filename of the j-th document, whether or not a document
\* faulted; during the loop the records collected so far are those of the
\* files processed so far, in input order.
C1_RowPerDocumentInOrder ==
    /\ Len(all_data) = i
    /\ \A j \in Rows : Cell(all_data[j], Filename) = Str(uploaded_files[j].name)
    /\ pc \in {"table", "done"} =>
          /\ Len(df.rows) = Len(uploaded_files)
          /\ \A j \in 1..Len(df.rows) :
                df.rows[j][1] = Str(uploaded_files[j].name)

C1_Witness ==
    /\ pc = "done"
    /\ Len(df.rows) >= 2
    /\ uploaded_files[1].name # uploaded_files[2].name
    /\ \E j \in Rows : Faulted(uploaded_files[j])

\* C2: every record returned by extract_data_from_pdf, for a file that
\* succeeded or faulted anywhere, has the keys Filename and then the catalog
\* fields in catalog order, and so has the table built from the records.
C2_Rectangular ==
    /\ \A j \in Rows : Keys(all_data[j]) = field_keys
    /\ pc \in {"table", "done"} =>
          /\ df.columns = field_keys
          /\ \A r \in 1..Len(df.rows) : Len(df.rows[r]) = Len(field_keys)

C2_Witness ==
    /\ pc = "done"
    /\ \E j \in Rows : uploaded_files[j].fault.at = "match"
                       /\ uploaded_files[j].fault.k > 1
                       /\ uploaded_files[j].fault.k < Len(patterns)
    /\ \E j \in Rows : ~Faulted(uploaded_files[j])

C4_AbsentFieldIsNone ==
    \A j \in Rows : \A f \in Fields :
        ~HasMatch(patterns[f], TextOf(uploaded_files[j])) =>
            /\ HasKey(all_data[j], patterns[f].key)
            /\ Cell(all_data[j], patterns[f].key) = None

\* C4 amended: for every document and every catalog field that the matcher
\* searched before any fault, if the pattern has no match in the document's
\* text the record has the key and its value is None, never the ErrorMarker.
C4_SearchedAbsentFieldIsNone ==
    \A j \in Rows : \A f \in Fields :
        (/\ f < FirstUnassigned(uploaded_files[j])
         /\ ~HasMatch(patterns[f], TextOf(uploaded_files[j]))) =>
            /\ HasKey(all_data[j], patterns[f].key)
            /\ Cell(all_data[j], patterns[f].key) = None

C4_Witness ==
    /\ \E j \in Rows : \E f, g \in Fields :
          /\ ~Faulted(uploaded_files[j])
          /\ ~HasMatch(patterns[f], TextOf(uploaded_files[j]))
          /\ HasMatch(patterns[g], TextOf(uploaded_files[j]))
    /\ \E j \in Rows : \E f \in Fields :
          /\ uploaded_files[j].fault.at = "match"
          /\ f < uploaded_files[j].fault.k
          /\ ~HasMatch(patterns[f], TextOf(uploaded_files[j]))

\* C5: no fault raised while processing a document (reading its name,
\* opening it, extracting text, matching, emitting its diagnostic) leaves
\* extract_data_from_pdf or aborts the batch loop.
C5_NoFaultEscapes == pc # "aborted"

\* C6: an empty input collection yields a table with zero rows and the full
\* column schema, available for export.
C6_EmptyBatchHasTable ==
    (uploaded_files = <<>> /\ pc # "start") =>
        /\ df.columns = field_keys
        /\ df.rows = <<>>
        /\ csv_data # NoCsv

\* the tables that differ from frame in one cell, which becomes None, the
\* empty string or the ErrorMarker
OneCellVariants(frame) ==
    {[frame EXCEPT !.rows[r][c] = v] :
        r \in 1..Len(frame.rows), c \in 1..Len(frame.columns),
        v \in {None, Str(<<>>), ErrorMarker}} \ {frame}

\* C7: parsing the exported CSV recovers the table cell for cell, a None
\* cell and an empty string cell included.  A parser sees only the CSV, so
\* no table with another cell value may have the same CSV.
C7_CsvDeterminesTable ==
    pc = "done" =>
        \A other \in OneCellVariants(df) : convert_df_to_csv(other) # csv_data

\* C8: a catalog field of a record is the ErrorMarker only if processing of
\* that document raised a fault.
C8_ErrorMarkerOnlyOnFault ==
    \A j \in Rows : \A f \in Fields :
        Cell(all_data[j], patterns[f].key) = ErrorMarker => Faulted(uploaded_files[j])

\* the currency fields are those whose pattern asks for the rupee sign
CurrencySymbol == <<"₹", " ">>

IsCurrency(pattern) ==
    /\ Len(pattern.literal) >= 2
    /\ SubSeq(pattern.literal, Len(pattern.literal) - 1, Len(pattern.literal))
          = CurrencySymbol

\* the label of a currency field, without the rupee sign
Label(pattern) == SubSeq(pattern.literal, 1, Len(pattern.literal) - 2)

\* the amount after the first occurrence of the label, the rupee sign
\* present or absent
LabelledAmount(pattern, text) ==
    LET amountAt(p) ==
            IF LiteralAt(text, p + Len(Label(pattern)), CurrencySymbol)
            THEN p + Len(pattern.literal)
            ELSE p + Len(Label(pattern))
        starts == {p \in 1..Len(text) :
                      /\ LiteralAt(text, p, Label(pattern))
                      /\ GroupAt(text, amountAt(p), pattern.group)}
    IN  IF starts = {} THEN None
        ELSE LET q == amountAt(Min(starts))
             IN  Str(SubSeq(text, q, GroupEnd(text, q, pattern.group) - 1))

\* C9: every currency field's pattern matches its label followed by the
\* amount with and without the rupee sign and captures the amount only.
C9_CurrencySymbolOptional ==
    \A j \in Rows : \A f \in Fields :
        (~Faulted(uploaded_files[j]) /\ IsCurrency(patterns[f])) =>
            Cell(all_data[j], patterns[f].key)
                = LabelledAmount(patterns[f], TextOf(uploaded_files[j]))

\* position p, where the literal of field f occurs, lies inside an
\* occurrence of the longer literal of another field
InsideOtherLabel(text, p, f) ==
    \E g \in Fields \ {f} : \E q \in 1..p :
        /\ Len(patterns[g].literal) > Len(patterns[f].literal)
        /\ LiteralAt(text, q, patterns[g].literal)
        /\ q + Len(patterns[g].literal) >= p + Len(patterns[f].literal)

\* the value after the first occurrence of the field's own label
OwnLabelValue(f, text) ==
    LET starts == {p \in 1..Len(text) :
                      /\ MatchAt(text, p, patterns[f])
                      /\ ~InsideOtherLabel(text, p, f)}
    IN  IF starts = {} THEN None
        ELSE LET q == Min(starts) + Len(patterns[f].literal)
             IN  Str(strip(SubSeq(text, q, GroupEnd(text, q, patterns[f].group) - 1)))

\* C10: the value stored for a field is the value that follows the field's
\* own label; a pattern never matches inside another field's label.
C10_OwnLabelOnly ==
    \A j \in Rows : \A f \in Fields :
        ~Faulted(uploaded_files[j]) =>
            Cell(all_data[j], patterns[f].key)
                = OwnLabelValue(f, TextOf(uploaded_files[j]))
====
